---- MODULE Spec2Model ----
(***************************************************************************)
(* Observatory dashboard (src/src/App.tsx, second App variant with the     *)
(* timeline; src/src/App.css for hit-testing of the panel overlay).        *)
(*                                                                         *)
(* Numbers: Math.random() is u / Resolution for an integer u in            *)
(* 0..Resolution-1; positions are in thousandths of a pixel; angles are in *)
(* whole degrees; sines and cosines are in thousandths.                    *)
(***************************************************************************)
EXTENDS Integers, Sequences, FiniteSets, TLC

VARIABLES
    selectedNode,     \* useState<Node | null>(null)
    expandedProcess,  \* useState<string | null>(null)
    nodes,            \* useState<Node[]>([])
    dimensions,       \* useState({width, height})
    currentDate,      \* useState<string>('')
    bins,             \* the hex cells drawn in the visualization layer
    hasSelector,      \* the browser applies .app:has(.node-details)::after
    pass,             \* number of generation passes run so far
    zoomState,        \* svg.__zoom: the zoom behaviour's current transform
    groupTransform,   \* the transform attribute of .visualization-group
    lastEvent,        \* history: the input event handled last
    sample,           \* generation of one asset, step by step
    timers,           \* the setTimeout callbacks not yet run, oldest first
    container         \* the mounted process-graph element and its content

vars == <<selectedNode, expandedProcess, nodes, dimensions, currentDate,
          bins, hasSelector, pass, zoomState, groupTransform, lastEvent,
          sample, timers, container>>

uiVars == <<selectedNode, expandedProcess, nodes, dimensions, currentDate,
            bins, hasSelector, pass, zoomState, groupTransform, lastEvent,
            timers, container>>

\* ------------------------------------------------------------- bounds

\* Math.random() takes the values 0/Resolution .. (Resolution-1)/Resolution
Resolution == 100

\* only the most recent NumDates of the 31 dates are generated
NumDates == 2

\* only the first NumGroups entries of the groups table are generated
NumGroups == 2

\* only the first MaxNodesPerGroup assets of a group are generated
MaxNodesPerGroup == 2

\* generation passes (the mount and the resizes) in one behaviour
MaxPasses == 2

\* the asset indexes i a single generated asset is sampled at: 0 .. MaxSampleIndex
MaxSampleIndex == 11

\* ------------------------------------------------------------- values

\* selectedNode === null
NullNode == [null |-> TRUE]

\* expandedProcess === null
NullProcess == << >>

Min(a, b) == IF a < b THEN a ELSE b

Max(a, b) == IF a > b THEN a ELSE b

\* Math.round(a / b) for a >= 0, b > 0
Round(a, b) == (2 * a + b) \div (2 * b)

\* Math.ceil(a / b) for a >= 0, b > 0
Ceil(a, b) == (a + b - 1) \div b

Unit == 0 .. (Resolution - 1)

\* Math.floor(Math.random() * n) for the draw u
FloorRandom(u, n) == (u * n) \div Resolution

\* The random streams a pass can run on: Math.random() call number k of a
\* pass returns RandomStreams[seed][k modulo the stream's length], in
\* hundredths.
RandomStreams ==
    << << 3, 55, 20, 71,  2, 48, 99, 14, 60, 35,  0 >>,
       << 50,  4, 62, 90, 30,  1, 45, 77, 12, 66, 25 >>,
       << 97, 40, 10, 81, 33, 58,  6, 70, 22, 49, 88 >>,
       <<  1, 30,  2, 60,  0, 95,  5, 44,  3, 18, 52 >>,
       << 60, 50,  6, 45,  4,  1,  3,  4, 60, 10, 30 >> >>

Seeds == 1 .. Len(RandomStreams)

Random(seed, k) ==
    LET stream == RandomStreams[seed]
    IN  (stream[(k % Len(stream)) + 1] * Resolution) \div 100

\* ------------------------------------------------------------- dates

\* dates (useMemo): today - 30 days .. today, oldest first
AllDates ==
    << "d-30", "d-29", "d-28", "d-27", "d-26", "d-25", "d-24", "d-23",
       "d-22", "d-21", "d-20", "d-19", "d-18", "d-17", "d-16", "d-15",
       "d-14", "d-13", "d-12", "d-11", "d-10", "d-09", "d-08", "d-07",
       "d-06", "d-05", "d-04", "d-03", "d-02", "d-01", "d-00" >>

dates == SubSeq(AllDates, Len(AllDates) - NumDates + 1, Len(AllDates))

DateSet == { dates[k] : k \in 1 .. Len(dates) }

\* ------------------------------------------------------------- generator

\* groups table; anomalyRate in hundredths
groups ==
    << [tag |-> "Production",  count |-> 568, anomalyRate |-> 8],
       [tag |-> "Staging",     count |-> 384, anomalyRate |-> 5],
       [tag |-> "Development", count |-> 287, anomalyRate |-> 3],
       [tag |-> "Testing",     count |-> 133, anomalyRate |-> 2],
       [tag |-> "Monitoring",  count |-> 50,  anomalyRate |-> 10] >>

RECURSIVE SumCounts(_)
SumCounts(n) == IF n = 0 THEN 0 ELSE groups[n].count + SumCounts(n - 1)

\* Object.values(groups).reduce((sum, g) => sum + g.count, 0)
currentTotal == SumCounts(Len(groups))

\* Math.floor(Math.random() * (1455 - 1410 + 1)) + 1410
totalNodesForDate(u) == FloorRandom(u, 1455 - 1410 + 1) + 1410

\* faulty variant: the scaled count is rounded up
scaledCountCeil(config, total) == Ceil(config.count * total, currentTotal)

\* Math.round(config.count * scaleFactor), scaleFactor = total / currentTotal
scaledCount(config, total) == Round(config.count * total, currentTotal)

\* Math.ceil(scaledCount / 15)
subclusterCount(count) == Ceil(count, 15)

\* Math.random() < config.anomalyRate
hasAnomalyDraw(u, config) == u * 100 < config.anomalyRate * Resolution

\* faulty variant: the process count is drawn from 0..99
processCountDrawFromZero(u) == FloorRandom(u, 100)

\* Math.floor(Math.random() * 100) + 1
processCountDraw(u) == FloorRandom(u, 100) + 1

\* faulty variant: the draw of the problematic process count ranges over 1..10
problematicProcessCountOfTen(hasAnomaly, u) ==
    IF hasAnomaly THEN FloorRandom(u, 10) + 1 ELSE 0

\* hasAnomaly ? Math.floor(Math.random() * 9) + 1 : 0
problematicProcessCount(hasAnomaly, u) ==
    IF hasAnomaly THEN FloorRandom(u, 9) + 1 ELSE 0

\* for (j = 0; j < problematicProcessCount; j++) nodeProcesses.push(...)
problematicProcesses(tag, i, problematic) ==
    [k \in 1 .. problematic |->
        [id     |-> <<"proc", tag, i, k - 1>>,
         status |-> IF (k - 1) % 2 = 0 THEN "Error" ELSE "Warning"]]

\* for (j = problematicProcessCount; j < processCount; j++) nodeProcesses.push(...)
normalProcesses(tag, i, problematic, processCount) ==
    [k \in 1 .. Max(0, processCount - problematic) |->
        [id     |-> <<"proc", tag, i, problematic + k - 1>>,
         status |-> "OK"]]

nodeProcesses(tag, i, problematic, processCount) ==
    problematicProcesses(tag, i, problematic)
        \o normalProcesses(tag, i, problematic, processCount)

\* processes.filter(p => p.status !== 'OK')
suspicious(processes) == SelectSeq(processes, LAMBDA p : p.status # "OK")

\* processes.filter(p => p.status !== 'OK').length
issues(node) == Len(suspicious(node.processes))

\* ------------------------------------------------------------- positions

\* Math.sin of an angle in degrees, in thousandths (Bhaskara's rational
\* approximation, exact at 0, 30, 90, 150 and 180 degrees)
SinHalf(x) == (4000 * x * (180 - x)) \div (40500 - x * (180 - x))

Sin(deg) ==
    LET d == deg % 360
    IN  IF d <= 180 THEN SinHalf(d) ELSE 0 - SinHalf(d - 180)

Cos(deg) == Sin(deg + 90)

\* Math.random() * (dimension * 0.6) + (dimension * 0.2)
subclusterCenter(u, dimension) ==
    (u * dimension * 600) \div Resolution + dimension * 200

\* Math.min(dimensions.width, dimensions.height) * 0.15
subclusterRadius(dims) == Min(dims.width, dims.height) * 150

\* (i / (scaledCount / subclusterCount)) * Math.PI * 2
baseAngle(i, count) == (i * subclusterCount(count) * 360) \div count

\* (Math.random() - 0.5) * 0.2 radians
angleVariation(u) == ((2 * u - Resolution) * 573) \div (100 * Resolution)

\* subcluster.radius * (hasAnomaly ? 0.5 : 0.4)
minDistance(radius, hasAnomaly) ==
    (radius * (IF hasAnomaly THEN 5 ELSE 4)) \div 10

\* subcluster.radius * (hasAnomaly ? 0.8 : 0.9)
maxDistance(radius, hasAnomaly) ==
    (radius * (IF hasAnomaly THEN 8 ELSE 9)) \div 10

\* minDistance + Math.random() * (maxDistance - minDistance)
distanceDraw(u, radius, hasAnomaly) ==
    minDistance(radius, hasAnomaly)
      + (u * (maxDistance(radius, hasAnomaly) - minDistance(radius, hasAnomaly)))
            \div Resolution

\* subcluster.centerX + Math.cos(angle) * distance
positionX(centerX, angle, distance) == centerX + (Cos(angle) * distance) \div 1000

\* subcluster.centerY + Math.sin(angle) * distance
positionY(centerY, angle, distance) == centerY + (Sin(angle) * distance) \div 1000

\* nodes.push({ id, x, y, hasAnomaly, tag, properties: { processes }, date });
\* ref is the identity of the pushed object: the pass that allocated it
makeNode(tag, date, i, x, y, hasAnomaly, processes, ref) ==
    [id         |-> <<tag, date, i>>,
     x          |-> x,
     y          |-> y,
     hasAnomaly |-> hasAnomaly,
     tag        |-> tag,
     processes  |-> processes,
     date       |-> date,
     ref        |-> ref]

\* The Math.random() call sites of one pass, numbered: per date the total,
\* per subcluster the two centre coordinates, per asset the anomaly draw,
\* the angle variation, the distance, the process count and the problematic
\* process count.
dateSite(dI) == dI * 101

subclusterSite(dI, gI, c, axis) == dI * 101 + gI * 37 + c * 7 + 1 + axis

nodeSite(dI, gI, i, n) == dI * 101 + gI * 37 + i * 7 + 3 + n

\* the body of the loop  for (let i = 0; i < scaledCount; i++)
generateNode(seed, dims, ref, dI, gI, count, i) ==
    LET config      == groups[gI]
        hasAnomaly  == hasAnomalyDraw(Random(seed, nodeSite(dI, gI, i, 0)), config)
        c           == i % subclusterCount(count)
        centerX     == subclusterCenter(Random(seed, subclusterSite(dI, gI, c, 0)),
                                        dims.width)
        centerY     == subclusterCenter(Random(seed, subclusterSite(dI, gI, c, 1)),
                                        dims.height)
        angle       == baseAngle(i, count)
                         + angleVariation(Random(seed, nodeSite(dI, gI, i, 1)))
        distance    == distanceDraw(Random(seed, nodeSite(dI, gI, i, 2)),
                                    subclusterRadius(dims), hasAnomaly)
        count100    == processCountDraw(Random(seed, nodeSite(dI, gI, i, 3)))
        problematic == problematicProcessCount(hasAnomaly,
                                               Random(seed, nodeSite(dI, gI, i, 4)))
    IN  makeNode(config.tag, dates[dI], i,
                 positionX(centerX, angle, distance),
                 positionY(centerY, angle, distance),
                 hasAnomaly,
                 nodeProcesses(config.tag, i, problematic, count100),
                 ref)

\* Object.entries(groups).forEach(([tag, config]) => { ... }) for one date;
\* the loop over i stops at MaxNodesPerGroup
generateGroup(seed, dims, ref, dI, gI) ==
    LET total == totalNodesForDate(Random(seed, dateSite(dI)))
        count == scaledCount(groups[gI], total)
    IN  [k \in 1 .. Min(count, MaxNodesPerGroup) |->
            generateNode(seed, dims, ref, dI, gI, count, k - 1)]

RECURSIVE generateGroups(_, _, _, _, _)
generateGroups(seed, dims, ref, dI, gI) ==
    IF gI > Min(Len(groups), NumGroups) THEN << >>
    ELSE generateGroup(seed, dims, ref, dI, gI)
            \o generateGroups(seed, dims, ref, dI, gI + 1)

RECURSIVE generateDates(_, _, _, _)
generateDates(seed, dims, ref, dI) ==
    IF dI > Len(dates) THEN << >>
    ELSE generateGroups(seed, dims, ref, dI, 1)
            \o generateDates(seed, dims, ref, dI + 1)

\* generateNodes(): dates.forEach(date => groups.forEach(... nodes.push ...))
generateNodes(seed, dims, ref) == generateDates(seed, dims, ref, 1)

\* ------------------------------------------------------------- aggregator

\* if (!currentDate) return []; return nodes.filter(d => d.date === currentDate)
filteredData(list, date) ==
    IF date = "" THEN << >> ELSE SelectSeq(list, LAMBDA d : d.date = date)

\* d3-hexbin with radius 15: rows are 22.5 px apart, columns 15 * sqrt(3) px,
\* odd rows shifted by half a column; the cell of a point is the nearest
\* row and column (the library's corner refinement is left out)
hexCell(node) ==
    LET row == Round(node.y, 22500)
        col == IF row % 2 = 1 THEN node.x \div 25981 ELSE Round(node.x, 25981)
    IN  <<col, row>>

RECURSIVE hexbin(_, _)
\* hexbin(points): one bin per cell in order of first occurrence, the
\* members of a bin in input order
hexbin(points, done) ==
    IF points = << >> THEN done
    ELSE LET p == Head(points)
             at == { k \in 1 .. Len(done) : done[k].cell = hexCell(p) }
         IN  IF at = {}
             THEN hexbin(Tail(points),
                         Append(done, [cell |-> hexCell(p), members |-> << p >>]))
             ELSE LET k == CHOOSE k \in at : TRUE
                  IN  hexbin(Tail(points),
                             [done EXCEPT ![k].members = Append(@, p)])

\* faulty variant: the reduce replaces max on a tie (>= for >)
RECURSIVE reduceLastMostIssues(_, _)
reduceLastMostIssues(members, max) ==
    IF members = << >> THEN max
    ELSE reduceLastMostIssues(Tail(members),
                              IF issues(Head(members)) >= issues(max)
                              THEN Head(members) ELSE max)

\* d.reduce((max, node) => currentIssues > maxIssues ? node : max, d[0])
RECURSIVE reduceMostIssues(_, _)
reduceMostIssues(members, max) ==
    IF members = << >> THEN max
    ELSE reduceMostIssues(Tail(members),
                          IF issues(Head(members)) > issues(max)
                          THEN Head(members) ELSE max)

\* faulty variant: the handler selects a copy of the asset, a new object
nodeWithMostIssuesCopy(d) == [reduceMostIssues(d, d[1]) EXCEPT !.ref = 0]

\* faulty variant: the handler selects the cell's first member
nodeWithMostIssuesFirst(d) == d[1]

nodeWithMostIssues(d) == reduceMostIssues(d, d[1])

\* ------------------------------------------------------------- colours

\* .domain([0, 1, 5, 10])
colorDomain == << 0, 1, 5, 10 >>

\* faulty variant: the colours of the tiers 1 and 5 are exchanged
colorRangeSwapped ==
    << << 224, 224, 224 >>, << 183, 28, 28 >>,
       << 211, 47, 47 >>, << 127, 0, 0 >> >>

\* .range(['#e0e0e0', '#d32f2f', '#b71c1c', '#7f0000']) as r, g, b
colorRange ==
    << << 224, 224, 224 >>, << 211, 47, 47 >>,
       << 183, 28, 28 >>, << 127, 0, 0 >> >>

\* d3-scale polymap: bisect(domain, x, 1, domain.length - 1), the segment
\* of the domain used for x; the last segment also for x beyond the domain
\* (the scale is not clamped)
colorSegment(x) ==
    IF x < colorDomain[2] THEN 1
    ELSE IF x < colorDomain[3] THEN 2
    ELSE 3

\* d3-color formatRgb: Math.max(0, Math.min(255, Math.round(v))) for v = n / d
clampi(n, d) == Max(0, Min(255, Round(n, d)))

\* d3-interpolate rgb: a + t * (b - a) with t = (x - x0) / (x1 - x0)
colorChannel(x, c) ==
    LET i  == colorSegment(x)
        x0 == colorDomain[i]
        x1 == colorDomain[i + 1]
        a  == colorRange[i][c]
        b  == colorRange[i + 1][c]
    IN  clampi(a * (x1 - x0) + (x - x0) * (b - a), x1 - x0)

\* colorScale(issueCount)
colorScale(x) == << colorChannel(x, 1), colorChannel(x, 2), colorChannel(x, 3) >>

\* ------------------------------------------------------------- view state

\* window.innerWidth x window.innerHeight values a resize can report
Viewports ==
    { [width |-> 60, height |-> 60], [width |-> 120, height |-> 90] }

NoEvent == [type |-> "none", at |-> "none", target |-> "none", arg |-> 0]

Event(type, at, target, arg) ==
    [type |-> type, at |-> at, target |-> target, arg |-> arg]

NoSample == [pc |-> "off"]

\* no setTimeout callback is pending; followed: whether the specification
\* records the callbacks the timer effect schedules
NoTimers == [followed |-> FALSE, pending |-> << >>]

\* no <div id="process-graph-..."> is mounted
NoContainer == [id |-> NullProcess, svgs |-> 0]

\* d3.zoomIdentity; k in hundredths, x and y in thousandths of a pixel
zoomIdentity == [k |-> 100, x |-> 0, y |-> 0]

\* a .visualization-group that carries no transform attribute
NoTransform == [none |-> TRUE]

\* d3.zoomIdentity.translate(centerX, centerY).scale(2).translate(-centerX, -centerY)
initialTransform(dims) ==
    [k |-> 200, x |-> 0 - dims.width * 500, y |-> 0 - dims.height * 500]

viewInit ==
    /\ selectedNode = NullNode
    /\ expandedProcess = NullProcess
    /\ nodes = << >>
    /\ dimensions \in Viewports
    /\ currentDate = ""
    /\ bins = << >>
    /\ hasSelector \in BOOLEAN
    /\ pass = 0
    /\ zoomState = zoomIdentity
    /\ groupTransform = NoTransform
    /\ lastEvent = NoEvent
    /\ sample = NoSample
    /\ container = NoContainer

\* the state after construction; the delayed callbacks are not followed
Init == viewInit /\ timers = NoTimers

\* faulty variant: the cells are drawn from nodes, whatever their date
renderBinsOfAllDates(list, date, drawn) ==
    IF Len(list) = 0 THEN drawn ELSE hexbin(list, << >>)

\* hexbin render effect, deps [filteredData, dimensions]:
\* if (nodes.length === 0) return; else clear the layer and draw hexbin(filteredData)
renderBins(list, date, drawn) ==
    IF Len(list) = 0 THEN drawn ELSE hexbin(filteredData(list, date), << >>)

\* selectedNode.properties.processes.find(proc => proc.status !== 'OK')
firstSuspiciousProcess(node) ==
    LET found == suspicious(node.processes)
    IN  IF found = << >> THEN NullProcess ELSE Head(found).id

\* faulty variant: the effect has no else branch, a healthy or null selection leaves
\* expandedProcess as it was
autoExpandWithoutReset(node, expanded) ==
    IF node # NullNode /\ node.hasAnomaly
         /\ firstSuspiciousProcess(node) # NullProcess
    THEN firstSuspiciousProcess(node)
    ELSE expanded

\* useEffect(..., [selectedNode]): the value of expandedProcess once the effect ran
autoExpand(node, expanded) ==
    IF node # NullNode /\ node.hasAnomaly
    THEN IF firstSuspiciousProcess(node) # NullProcess
         THEN firstSuspiciousProcess(node)
         ELSE expanded
    ELSE NullProcess

\* {expandedProcess === proc.id && ... <div id={`process-graph-${proc.id}`}>}
\* inside the list (1305-1355) of the selected anomalous asset's non-OK processes: the
\* process whose container the panel renders
containerId(node, expanded) ==
    IF /\ node # NullNode
       /\ node.hasAnomaly
       /\ \E n \in 1 .. Len(suspicious(node.processes)) :
             suspicious(node.processes)[n].id = expanded
    THEN expanded
    ELSE NullProcess

\* faulty variant: the effect schedules no callback
timerEffectNever(expanded) == timers

\* useEffect(() => { if (expandedProcess) setTimeout(() =>
\*   renderProcessGraph(expandedProcess, ...), 100) }, [expandedProcess]):
\* runs when the value of expandedProcess differs from the previous render's
timerEffect(expanded) ==
    IF timers.followed /\ expanded # expandedProcess /\ expanded # NullProcess
    THEN [timers EXCEPT !.pending = Append(@, expanded)]
    ELSE timers

\* the re-render after the state changed to (node, expanded): React keeps
\* the container element (<li key={proc.id}>), with what d3 put into it,
\* while the same process stays expanded, unmounts it otherwise and mounts
\* an empty one for a newly expanded process; then the timer effect runs
panelCommit(node, expanded) ==
    /\ container' = IF containerId(node, expanded) = container.id
                    THEN container
                    ELSE [id |-> containerId(node, expanded), svgs |-> 0]
    /\ timers' = timerEffect(expanded)

\* faulty variant: no effect follows the selection
setSelectedNodeOnly(node) ==
    /\ selectedNode' = node
    /\ expandedProcess' = expandedProcess
    /\ panelCommit(node, expandedProcess)

\* setSelectedNode(node) and the re-render it causes: React keeps the state
\* and runs no effect when node is the object already selected (Object.is)
setSelectedNode(node) ==
    LET expanded == IF node = selectedNode
                    THEN expandedProcess
                    ELSE autoExpand(node, expandedProcess)
    IN  /\ selectedNode' = node
        /\ expandedProcess' = expanded
        /\ panelCommit(node, expanded)

\* .app:has(.node-details)::after { pointer-events: auto }: while the panel
\* is open a fixed full-screen pseudo-element of .app lies over the svg
overlayActive == hasSelector /\ selectedNode # NullNode

\* the first render's effects: setCurrentDate(dates[dates.length - 1]),
\* setNodes(generateNodes()), the zoom effect (no .visualization-group exists
\* yet when it applies initialTransform), then the render of the hex cells
\* into a new .visualization-group
Mount ==
    /\ pass = 0
    /\ \E seed \in Seeds :
          nodes' = generateNodes(seed, dimensions, 1)
    /\ currentDate' = dates[Len(dates)]
    /\ bins' = renderBins(nodes', currentDate', bins)
    /\ pass' = 1
    /\ zoomState' = initialTransform(dimensions)
    /\ groupTransform' = NoTransform
    /\ lastEvent' = Event("mount", "none", "none", 0)
    /\ UNCHANGED <<selectedNode, expandedProcess, dimensions, hasSelector, sample,
                   timers, container>>

\* handleResize: setDimensions({...}) with a new object, so the generateNodes
\* effect (deps [dimensions, dates]), the render effect and the zoom effect
\* run; the render effect runs again for the new nodes and draws the cells
\* into a new .visualization-group
Resize(viewport) ==
    /\ pass > 0
    /\ pass < MaxPasses
    /\ dimensions' = viewport
    /\ \E seed \in Seeds :
          nodes' = generateNodes(seed, viewport, pass + 1)
    /\ bins' = renderBins(nodes', currentDate, bins)
    /\ pass' = pass + 1
    /\ zoomState' = initialTransform(viewport)
    /\ groupTransform' = NoTransform
    /\ lastEvent' = Event("resize", "none", "none", 0)
    /\ UNCHANGED <<selectedNode, expandedProcess, currentDate, hasSelector, sample,
                   timers, container>>

\* Timeline onChange: onDateChange(dates[parseInt(e.target.value)]); the
\* render effect draws the cells into a new .visualization-group
DateChange(index) ==
    /\ pass > 0
    /\ dates[index] # currentDate
    /\ currentDate' = dates[index]
    /\ bins' = renderBins(nodes, currentDate', bins)
    /\ groupTransform' = NoTransform
    /\ lastEvent' = Event("date", "none", "none", index)
    /\ UNCHANGED <<selectedNode, expandedProcess, nodes, dimensions,
                   hasSelector, pass, zoomState, sample, timers, container>>

\* <div className="app" onClick>: if (e.target === e.currentTarget) setSelectedNode(null)
appOnClick(target) ==
    IF target = "app"
    THEN setSelectedNode(NullNode)
    ELSE UNCHANGED <<selectedNode, expandedProcess, timers, container>>

\* hexbin path .on('click', (event, d) => { event.stopPropagation();
\*   setSelectedNode(nodeWithMostIssues) })
cellOnClick(d) == setSelectedNode(nodeWithMostIssues(d))

\* a pointer click on the drawn hex cell number k
ClickCell(k) ==
    /\ pass > 0
    /\ k \in 1 .. Len(bins)
    /\ IF overlayActive
       THEN /\ appOnClick("app")
            /\ lastEvent' = Event("click", "cell", "app", k)
       ELSE /\ cellOnClick(bins[k].members)
            /\ lastEvent' = Event("click", "cell", "cell", k)
    /\ UNCHANGED <<nodes, dimensions, currentDate, bins, hasSelector, pass,
                   zoomState, groupTransform, sample>>

\* a pointer click on the main svg where no hex cell is drawn
ClickSvg ==
    /\ pass > 0
    /\ IF overlayActive
       THEN /\ appOnClick("app")
            /\ lastEvent' = Event("click", "svg", "app", 0)
       ELSE /\ appOnClick("svg")
            /\ lastEvent' = Event("click", "svg", "svg", 0)
    /\ UNCHANGED <<nodes, dimensions, currentDate, bins, hasSelector, pass,
                   zoomState, groupTransform, sample>>

\* a pointer click on the area of the app element itself
ClickApp ==
    /\ pass > 0
    /\ appOnClick("app")
    /\ lastEvent' = Event("click", "app", "app", 0)
    /\ UNCHANGED <<nodes, dimensions, currentDate, bins, hasSelector, pass,
                   zoomState, groupTransform, sample>>

\* <div className="close-icon" onClick={() => setSelectedNode(null)} />
ClickClose ==
    /\ selectedNode # NullNode
    /\ setSelectedNode(NullNode)
    /\ lastEvent' = Event("click", "close", "close", 0)
    /\ UNCHANGED <<nodes, dimensions, currentDate, bins, hasSelector, pass,
                   zoomState, groupTransform, sample>>

\* faulty variant: the click always expands the clicked process
processOnClickExpands(proc) ==
    /\ expandedProcess' = proc.id
    /\ panelCommit(selectedNode, proc.id)

\* process-item onClick:
\* setExpandedProcess(expandedProcess === proc.id ? null : proc.id)
processOnClick(proc) ==
    LET expanded == IF expandedProcess = proc.id THEN NullProcess ELSE proc.id
    IN  /\ expandedProcess' = expanded
        /\ panelCommit(selectedNode, expanded)

\* the panel lists selectedNode's non-OK processes while it is anomalous
ClickProcess(n) ==
    /\ selectedNode # NullNode
    /\ selectedNode.hasAnomaly
    /\ n \in 1 .. Len(suspicious(selectedNode.processes))
    /\ processOnClick(suspicious(selectedNode.processes)[n])
    /\ lastEvent' = Event("click", "process", "process", n)
    /\ UNCHANGED <<selectedNode, nodes, dimensions, currentDate, bins,
                   hasSelector, pass, zoomState, groupTransform, sample>>

Next ==
    \/ Mount
    \/ \E viewport \in Viewports : Resize(viewport)
    \/ \E index \in 1 .. Len(dates) : DateChange(index)
    \/ \E k \in 1 .. Len(bins) : ClickCell(k)
    \/ ClickSvg
    \/ ClickApp
    \/ ClickClose
    \/ \E n \in 1 .. 9 : ClickProcess(n)

Spec == Init /\ [][Next]_vars

\* ------------------------------------------------------------- pan and zoom

\* .scaleExtent([0.5, 4]), in hundredths
scaleExtent == << 50, 400 >>

\* faulty variant: the new scale is not held within the scale extent
wheelScaleUnbounded(k, factor) == (k * factor[1]) \div factor[2]

\* d3-zoom wheeled: Math.max(scaleExtent[0], Math.min(scaleExtent[1],
\*   t.k * Math.pow(2, wheelDelta))), the power of 2 being factor[1] / factor[2]
wheelScale(k, factor) ==
    Max(scaleExtent[1], Min(scaleExtent[2], (k * factor[1]) \div factor[2]))

\* d3-zoom translate(scale(t, k), p, t.invert(p)): the point under the
\* pointer stays where it is
wheelTransform(t, k, p) ==
    [k |-> k,
     x |-> p.x - ((p.x - t.x) * k) \div t.k,
     y |-> p.y - ((p.y - t.y) * k) \div t.k]

\* the values of 2 ^ wheelDelta of a wheel event, as numerator and denominator
WheelFactors == { <<1, 2>>, <<2, 1>>, <<1, 16>>, <<16, 1>> }

\* the pointer position of a wheel event: the centre of the svg
WheelPoints ==
    { [x |-> dimensions.width * 500, y |-> dimensions.height * 500] }

\* a wheel event over the svg that starts a wheel gesture: the overlay,
\* while active, receives the event instead of the svg; the zoom handler
\* sets the transform attribute of .visualization-group
Wheel(factor, p) ==
    /\ pass > 0
    /\ IF overlayActive
       THEN /\ UNCHANGED <<zoomState, groupTransform>>
            /\ lastEvent' = Event("wheel", "svg", "app",
                                  (100 * factor[1]) \div factor[2])
       ELSE /\ LET k == wheelScale(zoomState.k, factor)
               IN  IF zoomState.k = k
                   THEN UNCHANGED <<zoomState, groupTransform>>
                   ELSE /\ zoomState' = wheelTransform(zoomState, k, p)
                        /\ groupTransform' = zoomState'
            /\ lastEvent' = Event("wheel", "svg", "svg",
                                  (100 * factor[1]) \div factor[2])
    /\ UNCHANGED <<selectedNode, expandedProcess, nodes, dimensions,
                   currentDate, bins, hasSelector, pass, sample, timers,
                   container>>

\* the offsets (thousandths of a pixel, along both axes) of a drag gesture
DragOffsets == { 10000, 0 - 25000 }

\* pointer down, move by offset, up on the svg: .filter(event =>
\* event.type === 'wheel') rejects the mousedown, so no zoom gesture starts;
\* the click that ends the gesture bubbles to the .app handler
Drag(offset) ==
    /\ pass > 0
    /\ IF overlayActive
       THEN /\ appOnClick("app")
            /\ lastEvent' = Event("drag", "svg", "app", offset)
       ELSE /\ appOnClick("svg")
            /\ lastEvent' = Event("drag", "svg", "svg", offset)
    /\ UNCHANGED <<nodes, dimensions, currentDate, bins, hasSelector, pass,
                   zoomState, groupTransform, sample>>

\* hexbin path .on('mouseenter'): the fill and the label of the cell change,
\* no state does; the overlay, while active, keeps the pointer off the cells
Hover(k) ==
    /\ pass > 0
    /\ ~overlayActive
    /\ k \in 1 .. Len(bins)
    /\ lastEvent' = Event("hover", "cell", "cell", k)
    /\ UNCHANGED <<selectedNode, expandedProcess, nodes, dimensions,
                   currentDate, bins, hasSelector, pass, zoomState,
                   groupTransform, sample, timers, container>>

\* the view under wheel, drag, date and resize events, nothing selected
NextZoom ==
    \/ Mount
    \/ \E viewport \in Viewports : Resize(viewport)
    \/ \E index \in 1 .. Len(dates) : DateChange(index)
    \/ \E factor \in WheelFactors, p \in WheelPoints : Wheel(factor, p)
    \/ \E offset \in DragOffsets : Drag(offset)

SpecZoom == Init /\ [][NextZoom]_vars

\* the pointer and timeline interactions on one generated collection
NextView ==
    \/ Mount
    \/ \E index \in 1 .. Len(dates) : DateChange(index)
    \/ \E k \in 1 .. Len(bins) : Hover(k)
    \/ \E k \in 1 .. Len(bins) : ClickCell(k)
    \/ ClickSvg
    \/ ClickApp
    \/ ClickClose
    \/ \E n \in 1 .. 9 : ClickProcess(n)
    \/ \E factor \in WheelFactors, p \in WheelPoints : Wheel(factor, p)
    \/ \E offset \in DragOffsets : Drag(offset)

SpecView == Init /\ [][NextView]_vars

\* ------------------------------------------------------------- delayed render

\* the largest number of setTimeout callbacks pending at a time
MaxPending == 2

\* faulty variant: the previous content of the container is not removed
renderProcessGraphAppend(processId) ==
    IF processId # NullProcess /\ container.id = processId
    THEN [container EXCEPT !.svgs = @ + 1]
    ELSE container

\* faulty variant: the graph is drawn without looking the container up
renderProcessGraphUnchecked(processId) == [id |-> processId, svgs |-> 1]

\* renderProcessGraph(processId, `process-graph-${processId}`):
\* if (!container) return; selectAll('*').remove(); append('svg') ...
renderProcessGraph(processId) ==
    IF processId # NullProcess /\ container.id = processId
    THEN [container EXCEPT !.svgs = 1]
    ELSE container

\* the oldest pending setTimeout callback runs (equal delays: in the order
\* they were set)
FireTimer ==
    /\ timers.pending # << >>
    /\ container' = renderProcessGraph(Head(timers.pending))
    /\ timers' = [timers EXCEPT !.pending = Tail(@)]
    /\ lastEvent' = Event("timer", "none", "none", 0)
    /\ UNCHANGED <<selectedNode, expandedProcess, nodes, dimensions,
                   currentDate, bins, hasSelector, pass, zoomState,
                   groupTransform, sample>>

\* the state after construction, the delayed callbacks followed
InitPanel == viewInit /\ timers = [followed |-> TRUE, pending |-> << >>]

\* the panel's events, taken while fewer than MaxPending callbacks are
\* pending, and the callbacks
NextPanel ==
    \/ /\ Len(timers.pending) < MaxPending
       /\ \/ Mount
          \/ \E index \in 1 .. Len(dates) : DateChange(index)
          \/ \E k \in 1 .. Len(bins) : ClickCell(k)
          \/ ClickClose
          \/ \E n \in 1 .. 9 : ClickProcess(n)
    \/ FireTimer

SpecPanel == InitPanel /\ [][NextPanel]_vars

\* the event loop runs every callback whose delay has passed
SpecPanelFair == SpecPanel /\ WF_vars(FireTimer)

\* ------------------------------------------------------------- one asset

\* the view state while a single asset's generation is followed
viewOff ==
    /\ selectedNode = NullNode
    /\ expandedProcess = NullProcess
    /\ nodes = << >>
    /\ dimensions = [width |-> 0, height |-> 0]
    /\ currentDate = ""
    /\ bins = << >>
    /\ hasSelector = FALSE
    /\ pass = 0
    /\ zoomState = zoomIdentity
    /\ groupTransform = NoTransform
    /\ lastEvent = NoEvent
    /\ timers = NoTimers
    /\ container = NoContainer

sampledGroups == 1 .. Min(Len(groups), NumGroups)

\* the draws used where only the ends, or the ends and the middle, of
\* [0, 1) matter
Ends == {0, Resolution - 1}

Extremes == {0, Resolution \div 2, Resolution - 1}

\* --- the processes of one asset (second App: lines 791-839; first App: 98-146)

InitProcesses == viewOff /\ sample = [pc |-> "start"]

\* for (let i = 0; i < scaledCount; i++) {
ProcLoop ==
    /\ sample.pc = "start"
    /\ \E gI \in sampledGroups, i \in 0 .. MaxSampleIndex :
          sample' = [pc |-> "loop", gI |-> gI, i |-> i]
    /\ UNCHANGED uiVars

\* const hasAnomaly = Math.random() < config.anomalyRate;
ProcAnomaly ==
    /\ sample.pc = "loop"
    /\ \E u \in Unit :
          sample' = [pc |-> "anomaly", gI |-> sample.gI, i |-> sample.i,
                     hasAnomaly |-> hasAnomalyDraw(u, groups[sample.gI])]
    /\ UNCHANGED uiVars

\* const processCount = ...; const problematicProcessCount = ...;
ProcCounts ==
    /\ sample.pc = "anomaly"
    /\ \E u1 \in Unit, u2 \in Unit :
          sample' = [pc |-> "counts", gI |-> sample.gI, i |-> sample.i,
                     hasAnomaly |-> sample.hasAnomaly,
                     processCount |-> processCountDraw(u1),
                     problematic |->
                        problematicProcessCount(sample.hasAnomaly, u2)]
    /\ UNCHANGED uiVars

\* the two process loops and nodes.push({..., hasAnomaly, processes})
ProcPush ==
    /\ sample.pc = "counts"
    /\ sample' = [pc |-> "pushed", gI |-> sample.gI, i |-> sample.i,
                  hasAnomaly |-> sample.hasAnomaly,
                  processCount |-> sample.processCount,
                  problematic |-> sample.problematic,
                  processes |-> nodeProcesses(groups[sample.gI].tag, sample.i,
                                              sample.problematic,
                                              sample.processCount)]
    /\ UNCHANGED uiVars

\* the end of the loop body: on to the next asset
ProcNext ==
    /\ sample.pc = "pushed"
    /\ sample' = [pc |-> "start"]
    /\ UNCHANGED uiVars

NextProcesses == ProcLoop \/ ProcAnomaly \/ ProcCounts \/ ProcPush \/ ProcNext

SpecProcesses == InitProcesses /\ [][NextProcesses]_vars

\* --- the position of one asset (second App: lines 783-803, 841-856;
\* --- first App: lines 83-88, 149-203)

\* window sizes a single asset's position is generated for
SampleViewports ==
    { [width |-> 1920, height |-> 1080],
      [width |-> 600,  height |-> 600],
      [width |-> 375,  height |-> 667] }

InitPositions == viewOff /\ sample = [pc |-> "start"]

\* the group's count: config.count in the first App, scaledCount in the second
PosGroup ==
    /\ sample.pc = "start"
    /\ \E variant \in {"first", "second"}, dims \in SampleViewports,
          gI \in sampledGroups, u \in Extremes :
          sample' = [pc |-> "group", variant |-> variant, dims |-> dims,
                     gI |-> gI,
                     count |-> IF variant = "first"
                               THEN groups[gI].count
                               ELSE scaledCount(groups[gI], totalNodesForDate(u))]
    /\ UNCHANGED uiVars

\* the loop index, the anomaly draw, the subcluster centre and the position
\* of the pushed node
PosPush ==
    /\ sample.pc = "group"
    /\ \E i \in 0 .. Min(sample.count - 1, MaxSampleIndex),
          uAnomaly \in Unit,
          uX \in Ends, uY \in Ends, uAngle \in Ends,
          uDistance \in Extremes :
          LET hasAnomaly == hasAnomalyDraw(uAnomaly, groups[sample.gI])
              angle      == baseAngle(i, sample.count) + angleVariation(uAngle)
              distance   == distanceDraw(uDistance,
                                         subclusterRadius(sample.dims),
                                         hasAnomaly)
              x == positionX(subclusterCenter(uX, sample.dims.width),
                             angle, distance)
              y == positionY(subclusterCenter(uY, sample.dims.height),
                             angle, distance)
          IN  sample' = [pc |-> IF sample.variant = "first"
                                THEN "pushed" ELSE "done",
                         variant |-> sample.variant, dims |-> sample.dims,
                         gI |-> sample.gI, count |-> sample.count,
                         hasAnomaly |-> hasAnomaly,
                         x |-> x, y |-> y,           \* nodes[...]
                         simX |-> x, simY |-> y]     \* allNodes[...]
    /\ UNCHANGED uiVars

\* displacements (thousandths of a pixel) of a node by the 800 simulation ticks
SimulationShifts == {0 - 45000, 7000}

\* for (let i = 0; i < 800; ++i) simulation.tick(): d3 moves the allNodes
\* entries; the nodes array keeps the generated x and y
PosSimulate ==
    /\ sample.pc = "pushed"
    /\ \E dx \in SimulationShifts, dy \in SimulationShifts :
          sample' = [sample EXCEPT !.pc = "simulated",
                                   !.simX = sample.x + dx,
                                   !.simY = sample.y + dy]
    /\ UNCHANGED uiVars

\* Math.max(minDistance, Math.min(dimension - minDistance, value))
clamp(value, dimension, hasAnomaly) ==
    LET margin == IF hasAnomaly THEN 60000 ELSE 25000
    IN  Max(margin, Min(dimension * 1000 - margin, value))

\* nodes.findIndex(n => n.hasAnomaly === node.hasAnomaly && n.x === node.x
\*                      && n.y === node.y), for the one node followed
findIndex(node) ==
    IF node.hasAnomaly = sample.hasAnomaly /\ node.x = sample.x /\ node.y = sample.y
    THEN 0 ELSE 0 - 1

\* allNodes.forEach(node => { if (nodeIndex !== -1) { nodes[nodeIndex].x = ... } })
PosWriteBack ==
    /\ sample.pc = "simulated"
    /\ LET node == [hasAnomaly |-> sample.hasAnomaly,
                    x |-> sample.simX, y |-> sample.simY]
       IN  IF findIndex(node) # 0 - 1
           THEN sample' = [sample EXCEPT
                             !.pc = "done",
                             !.x = clamp(node.x, sample.dims.width, node.hasAnomaly),
                             !.y = clamp(node.y, sample.dims.height, node.hasAnomaly)]
           ELSE sample' = [sample EXCEPT !.pc = "done"]
    /\ UNCHANGED uiVars

\* on to the next asset
PosNext ==
    /\ sample.pc = "done"
    /\ sample' = [pc |-> "start"]
    /\ UNCHANGED uiVars

NextPositions ==
    PosGroup \/ PosPush \/ PosSimulate \/ PosWriteBack \/ PosNext

SpecPositions == InitPositions /\ [][NextPositions]_vars

\* --- the scaled group counts of one date (lines 768-780)

InitScaling == viewOff /\ sample = [pc |-> "start"]

\* dates.forEach(date => { const totalNodesForDate = ...
ScaleDate ==
    /\ sample.pc = "start"
    /\ \E dI \in 1 .. Len(AllDates), u \in Unit :
          sample' = [pc |-> "date", date |-> AllDates[dI],
                     total |-> totalNodesForDate(u),
                     counts |-> << >>]
    /\ UNCHANGED uiVars

\* Object.entries(groups).forEach(([tag, config]) => { const scaledCount = ...;
\* for (let i = 0; i < scaledCount; i++) ... nodes.push(...) })
ScaleGroup ==
    /\ sample.pc = "date"
    /\ Len(sample.counts) < Len(groups)
    /\ sample' = [sample EXCEPT
                    !.counts = Append(@, scaledCount(groups[Len(@) + 1],
                                                     sample.total))]
    /\ UNCHANGED uiVars

\* the end of the date's forEach body
ScaleDone ==
    /\ sample.pc = "date"
    /\ Len(sample.counts) = Len(groups)
    /\ sample' = [sample EXCEPT !.pc = "done"]
    /\ UNCHANGED uiVars

\* on to the next date
ScaleNext ==
    /\ sample.pc = "done"
    /\ sample' = [pc |-> "start"]
    /\ UNCHANGED uiVars

NextScaling == ScaleDate \/ ScaleGroup \/ ScaleDone \/ ScaleNext

SpecScaling == InitScaling /\ [][NextScaling]_vars

RECURSIVE SumSeq(_)
\* the number of nodes.push calls made for the counts
SumSeq(counts) ==
    IF counts = << >> THEN 0 ELSE Head(counts) + SumSeq(Tail(counts))

\* --- the generation with a one-group table (lines 760-839)

\* the group table of the scenario, in the place of the table of lines
\* 760-766: the single group A, count 10, anomalyRate 1.0 (in hundredths)
scenarioGroups == << [tag |-> "A", count |-> 10, anomalyRate |-> 100] >>

RECURSIVE sumCounts(_, _)
\* Object.values(groups).reduce((sum, g) => sum + g.count, 0)
sumCounts(table, n) ==
    IF n = 0 THEN 0 ELSE table[n].count + sumCounts(table, n - 1)

\* Math.round(config.count * scaleFactor) under the scenario's table
scenarioScaledCount(config, total) ==
    Round(config.count * total, sumCounts(scenarioGroups, Len(scenarioGroups)))

\* the draws of the process count that are followed: the counts 1..12 and 100
ProcessCountDraws == (0 .. MaxSampleIndex) \cup {Resolution - 1}

InitScenario == viewOff /\ sample = [pc |-> "start"]

\* dates.forEach(date => { const totalNodesForDate = ...; and the group's
\* scaledCount, the number of iterations of the asset loop
ScenarioDate ==
    /\ sample.pc = "start"
    /\ \E dI \in 1 .. Len(dates), gI \in 1 .. Len(scenarioGroups), u \in Unit :
          sample' = [pc |-> "group", date |-> dates[dI], gI |-> gI,
                     total |-> totalNodesForDate(u),
                     count |-> scenarioScaledCount(scenarioGroups[gI],
                                                   totalNodesForDate(u))]
    /\ UNCHANGED uiVars

\* one iteration of for (let i = 0; i < scaledCount; i++): the first ones
\* and the last one are followed
ScenarioAsset ==
    /\ sample.pc = "group"
    /\ \E i \in (0 .. Min(sample.count - 1, 1)) \cup {sample.count - 1},
          uAnomaly \in Ends, u1 \in ProcessCountDraws, u2 \in Unit :
          LET config       == scenarioGroups[sample.gI]
              hasAnomaly   == hasAnomalyDraw(uAnomaly, config)
              processCount == processCountDraw(u1)
              problematic  == problematicProcessCount(hasAnomaly, u2)
          IN  sample' = [pc |-> "pushed", date |-> sample.date,
                         gI |-> sample.gI, total |-> sample.total,
                         count |-> sample.count, i |-> i,
                         hasAnomaly |-> hasAnomaly,
                         processCount |-> processCount,
                         processes |-> nodeProcesses(config.tag, i, problematic,
                                                     processCount)]
    /\ UNCHANGED uiVars

\* on to the next date
ScenarioNext ==
    /\ sample.pc = "pushed"
    /\ sample' = [pc |-> "start"]
    /\ UNCHANGED uiVars

NextScenario == ScenarioDate \/ ScenarioAsset \/ ScenarioNext

SpecScenario == InitScenario /\ [][NextScenario]_vars

\* --- the fill colours of two hex cells (lines 891-908)

\* the largest number of anomalous members of a cell that is followed
MaxIssueCount == 15

InitColor == viewOff /\ sample = [pc |-> "start"]

\* .attr('fill', d => colorScale(d.filter(node => node.hasAnomaly).length))
\* for a cell with a and a cell with b anomalous members
ColorFill ==
    /\ sample.pc = "start"
    /\ \E a \in 0 .. MaxIssueCount, b \in 0 .. MaxIssueCount :
          sample' = [pc |-> "filled", a |-> a, b |-> b,
                     fillA |-> colorScale(a), fillB |-> colorScale(b)]
    /\ UNCHANGED uiVars

\* the next render of the cells
ColorNext ==
    /\ sample.pc = "filled"
    /\ sample' = [pc |-> "start"]
    /\ UNCHANGED uiVars

NextColor == ColorFill \/ ColorNext

SpecColor == InitColor /\ [][NextColor]_vars

\* --- the secondary graph of one expand (lines 1084-1107)

\* the links of the graph nodes 0 .. MaxSourceIndex are followed
MaxSourceIndex == 1

InitGraph == viewOff /\ sample = [pc |-> "start"]

\* const nodeCount = Math.floor(Math.random() * 6) + 15; graphNodes = Array.from(...)
GraphNodes ==
    /\ sample.pc = "start"
    /\ \E u \in Unit :
          sample' = [pc |-> "nodes", nodeCount |-> FloorRandom(u, 6) + 15]
    /\ UNCHANGED uiVars

\* for (let i = 0; i < graphNodes.length; i++) {
\*   const connectionCount = Math.floor(Math.random() * 3) + 1;
GraphSource ==
    /\ sample.pc = "nodes"
    /\ \E i \in 0 .. Min(sample.nodeCount - 1, MaxSourceIndex), u \in Unit :
          sample' = [pc |-> "source", nodeCount |-> sample.nodeCount,
                     i |-> i, connectionCount |-> FloorRandom(u, 3) + 1,
                     j |-> 0, links |-> << >>]
    /\ UNCHANGED uiVars

\* for (let j = 0; j < connectionCount; j++) {
\*   const targetIndex = Math.floor(Math.random() * graphNodes.length);
\*   if (targetIndex !== i) links.push({ source, target, value }) }
GraphLink ==
    /\ sample.pc = "source"
    /\ sample.j < sample.connectionCount
    /\ \E u \in Extremes :
          LET targetIndex == FloorRandom(u, sample.nodeCount)
          IN  sample' = [sample EXCEPT
                           !.j = @ + 1,
                           !.links = IF targetIndex # sample.i
                                     THEN Append(@, [source |-> sample.i,
                                                     target |-> targetIndex])
                                     ELSE @]
    /\ UNCHANGED uiVars

\* the end of the loop over j for the source i
GraphSourceDone ==
    /\ sample.pc = "source"
    /\ sample.j = sample.connectionCount
    /\ sample' = [sample EXCEPT !.pc = "done"]
    /\ UNCHANGED uiVars

\* the next expand
GraphNext ==
    /\ sample.pc = "done"
    /\ sample' = [pc |-> "start"]
    /\ UNCHANGED uiVars

NextGraph ==
    GraphNodes \/ GraphSource \/ GraphLink \/ GraphSourceDone \/ GraphNext

SpecGraph == InitGraph /\ [][NextGraph]_vars

\* --- the date range and the scrubber (lines 720-736, 1379-1383, 1398-1410)

\* local time zones: the minutes ahead of UTC before and after a change of
\* the offset, and the local day (0 = today) of the change, which takes
\* effect at 03:00 local time: no change, +1h -> +2h, +2h -> +1h, -8h -> -7h
Zones ==
    { [before |-> 0,       after |-> 0,       change |-> 0],
      [before |-> 60,      after |-> 120,     change |-> 0 - 12],
      [before |-> 120,     after |-> 60,      change |-> 0 - 12],
      [before |-> 0 - 480, after |-> 0 - 420, change |-> 0 - 12] }

\* the local times of day (in minutes) at which the page is loaded
LoadTimes == {30, 90, 720, 1410}

\* the zone's offset at minute m of the local day
zoneOffset(zone, day, m) ==
    IF day > zone.change \/ (day = zone.change /\ m >= 180)
    THEN zone.after ELSE zone.before

\* the UTC day (0 = the local today) of the instant at minute m of the
\* local day
utcDay(zone, day, m) == (day * 1440 + m - zoneOffset(zone, day, m)) \div 1440

\* date.toISOString().split('T')[0]: the name of a UTC day
toISODate(day) == (<< "d-31" >> \o AllDates \o << "d+01" >>)[day + 32]

\* for (let i = 30; i >= 0; i--) { const date = new Date();
\*   date.setDate(date.getDate() - i); dates.push(date.toISOString()...) }
timelineDates(zone, m) ==
    [k \in 1 .. Len(AllDates) |->
        toISODate(utcDay(zone, k - Len(AllDates), m))]

\* dates.indexOf(currentDate)
indexOf(list, date) ==
    IF \E k \in 1 .. Len(list) : list[k] = date
    THEN (CHOOSE k \in 1 .. Len(list) :
             /\ list[k] = date
             /\ \A j \in 1 .. k - 1 : list[j] # date) - 1
    ELSE 0 - 1

\* <input type="range" min={0} max={dates.length - 1} value={...}>: the
\* position the browser gives the scrubber for the value attribute
scrubberPosition(list, date) == Max(0, Min(Len(list) - 1, indexOf(list, date)))

\* faulty variant: the effect picks the oldest date
initialDateOldest(list) == list[1]

\* dates[dates.length - 1]
initialDate(list) == list[Len(list)]

\* the first render: dates (useMemo), currentDate '' and the Timeline
InitTimeline ==
    /\ viewOff
    /\ \E zone \in Zones, m \in LoadTimes :
          sample = [pc |-> "timeline",
                    dates |-> timelineDates(zone, m),
                    position |-> scrubberPosition(timelineDates(zone, m), "")]

\* useEffect(() => { if (dates.length > 0 && !currentDate)
\*   setCurrentDate(dates[dates.length - 1]) }, [dates, currentDate])
TimelineInitialDate ==
    /\ sample.pc = "timeline"
    /\ Len(sample.dates) > 0
    /\ currentDate = ""
    /\ currentDate' = initialDate(sample.dates)
    /\ sample' = [sample EXCEPT
                    !.position = scrubberPosition(sample.dates, currentDate')]
    /\ lastEvent' = Event("mount", "none", "none", 0)
    /\ UNCHANGED <<selectedNode, expandedProcess, nodes, dimensions, bins,
                   hasSelector, pass, zoomState, groupTransform, timers,
                   container>>

\* the user moves the scrubber to the value index:
\* onChange={(e) => onDateChange(dates[parseInt(e.target.value)])}, then the
\* re-render sets the input's value to dates.indexOf(currentDate)
TimelineChange(index) ==
    /\ sample.pc = "timeline"
    /\ currentDate # ""
    /\ index \in 0 .. Len(sample.dates) - 1
    /\ index # sample.position
    /\ currentDate' = sample.dates[index + 1]
    /\ sample' = [sample EXCEPT
                    !.position = scrubberPosition(sample.dates, currentDate')]
    /\ lastEvent' = Event("date", "none", "none", index)
    /\ UNCHANGED <<selectedNode, expandedProcess, nodes, dimensions, bins,
                   hasSelector, pass, zoomState, groupTransform, timers,
                   container>>

NextTimeline ==
    \/ TimelineInitialDate
    \/ \E index \in 0 .. Len(AllDates) - 1 : TimelineChange(index)

SpecTimeline == InitTimeline /\ [][NextTimeline]_vars

\* ------------------------------------------------------------- derived view

\* the selection states of the interaction layer
idle == selectedNode = NullNode /\ expandedProcess = NullProcess

\* {filteredData.length.toLocaleString()} assets
totalCount == Len(filteredData(nodes, currentDate))

\* the assets drawn in some hex cell
displayed ==
    UNION { { bins[k].members[j] : j \in 1 .. Len(bins[k].members) } :
            k \in 1 .. Len(bins) }

\* d.filter(node => node.hasAnomaly).length
issueCount(d) == Len(SelectSeq(d, LAMBDA node : node.hasAnomaly))

\* the process-graph containers the panel renders: one per listed process
\* whose id is expandedProcess
expandedItems ==
    IF selectedNode # NullNode /\ selectedNode.hasAnomaly
    THEN { n \in 1 .. Len(suspicious(selectedNode.processes)) :
             suspicious(selectedNode.processes)[n].id = expandedProcess }
    ELSE {}

\* the step handles a click that a hex cell received
clickedCell == lastEvent'.type = "click" /\ lastEvent'.target = "cell"

clickedMembers == bins[lastEvent'.arg].members

\* the graph of the expanded process is in its container
graphRendered ==
    /\ expandedProcess # NullProcess
    /\ container.id = expandedProcess
    /\ container.svgs = 1

\* a step that changes the selected asset or the expanded process
selectionEvent ==
    selectedNode' # selectedNode \/ expandedProcess' # expandedProcess

\* ------------------------------------------------------------- claims

\* C1 as stated: every click on a hex cell with members ends with the
\* cell's chosen asset selected and, when that asset is anomalous, with its
\* first non-OK process expanded, from every prior selection state.
C1_EveryCellClickSelectsAndExpands ==
    [][clickedCell =>
         LET chosen == nodeWithMostIssues(clickedMembers)
         IN  /\ selectedNode' = chosen
             /\ chosen.hasAnomaly =>
                  expandedProcess' = firstSuspiciousProcess(chosen)]_vars

\* C1 amended: every click on a hex cell with members ends with the cell's
\* chosen asset selected; when this changes the selection, the first non-OK
\* process of an anomalous asset is expanded and nothing is expanded for a
\* healthy one; when the chosen asset is the one already selected,
\* expandedProcess keeps its value (a collapsed process stays collapsed,
\* another expanded process stays expanded).
C1_CellClickSelects ==
    [][clickedCell =>
         LET chosen == nodeWithMostIssues(clickedMembers)
         IN  /\ selectedNode' = chosen
             /\ chosen # selectedNode =>
                  expandedProcess' =
                    IF chosen.hasAnomaly
                    THEN firstSuspiciousProcess(chosen)
                    ELSE NullProcess
             /\ chosen = selectedNode =>
                  expandedProcess' = expandedProcess]_vars

\* the cell of the selected anomalous asset was clicked while its process
\* was collapsed, and the process stayed collapsed
C1_Witness ==
    /\ lastEvent.type = "click"
    /\ lastEvent.at = "cell"
    /\ lastEvent.target = "cell"
    /\ selectedNode # NullNode
    /\ selectedNode.hasAnomaly
    /\ expandedProcess = NullProcess

\* C2 as stated: from asset-selected or process-expanded, a click on the
\* close affordance or on an empty part of the canvas (the main svg outside
\* the hex cells, or the app element) returns to idle.
C2_CloseOrEmptyCanvasReturnsToIdle ==
    [][(/\ lastEvent'.type = "click"
        /\ lastEvent'.at \in {"close", "svg", "app"}
        /\ selectedNode # NullNode)
       => (selectedNode' = NullNode /\ expandedProcess' = NullProcess)]_vars

\* an empty part of the main svg was clicked, the svg was the event's target
\* and the asset is still selected
C2_Witness ==
    /\ lastEvent.type = "click"
    /\ lastEvent.at = "svg"
    /\ lastEvent.target = "svg"
    /\ selectedNode # NullNode

\* C3 as stated: after a change of the date filter the selection is kept
\* only if the selected asset is a member of the new filtered set, and is
\* idle otherwise.
C3_DateChangeReconcilesSelection ==
    [][lastEvent'.type = "date" =>
         IF \E k \in 1 .. Len(filteredData(nodes', currentDate')) :
               filteredData(nodes', currentDate')[k] = selectedNode
         THEN selectedNode' = selectedNode /\ expandedProcess' = expandedProcess
         ELSE selectedNode' = NullNode /\ expandedProcess' = NullProcess]_vars

\* the date filter was changed and the selected asset has another date
C3_Witness ==
    /\ lastEvent.type = "date"
    /\ selectedNode # NullNode
    /\ selectedNode.date # currentDate

\* C4 as stated: a processed resize leaves the selection idle, so that
\* selectedNode never references an asset of a replaced collection.
C4_ResizeResetsSelection ==
    [][lastEvent'.type = "resize" =>
         /\ selectedNode' = NullNode
         /\ expandedProcess' = NullProcess
         /\ selectedNode' # NullNode => selectedNode'.ref = pass']_vars

\* a resize was processed and the selected asset is of the replaced collection
C4_Witness ==
    /\ lastEvent.type = "resize"
    /\ selectedNode # NullNode
    /\ selectedNode.ref < pass
    /\ \A k \in 1 .. Len(nodes) : nodes[k] # selectedNode

\* C5: a click on the expand affordance of the expanded process collapses
\* it and keeps the selection; a click on the affordance of another non-OK
\* process makes that process the expanded one; at most one listed process
\* is expanded.
C5_ExpandTogglesOneProcess ==
    /\ [](Cardinality(expandedItems) <= 1)
    /\ [][(lastEvent'.type = "click" /\ lastEvent'.at = "process") =>
            LET proc == suspicious(selectedNode.processes)[lastEvent'.arg]
            IN  /\ selectedNode' = selectedNode
                /\ expandedProcess = proc.id => expandedProcess' = NullProcess
                /\ expandedProcess # proc.id => expandedProcess' = proc.id]_vars

\* the expanded process was clicked again: asset-selected, nothing expanded
C5_Witness ==
    /\ lastEvent.type = "click"
    /\ lastEvent.at = "process"
    /\ selectedNode # NullNode
    /\ expandedProcess = NullProcess

\* C6: expandedProcess is non-null only while selectedNode is an anomalous
\* asset and expandedProcess is the id of one of its non-OK processes; and
\* every change of selectedNode replaces it by the value derived from the
\* new selection.
C6_ExpandedDerivesFromSelection ==
    /\ [](expandedProcess # NullProcess =>
            /\ selectedNode # NullNode
            /\ selectedNode.hasAnomaly
            /\ \E n \in 1 .. Len(selectedNode.processes) :
                  /\ selectedNode.processes[n].status # "OK"
                  /\ selectedNode.processes[n].id = expandedProcess)
    /\ [][selectedNode' # selectedNode =>
            expandedProcess' =
              IF selectedNode' # NullNode /\ selectedNode'.hasAnomaly
              THEN firstSuspiciousProcess(selectedNode')
              ELSE NullProcess]_vars

\* a process other than the first one is expanded for an asset of a
\* collection that a resize has replaced
C6_Witness ==
    /\ expandedProcess # NullProcess
    /\ selectedNode # NullNode
    /\ selectedNode.ref < pass
    /\ expandedProcess # firstSuspiciousProcess(selectedNode)

\* C7: the asset chosen for a non-empty hex cell is a member of the cell
\* with the maximal count of non-OK processes, the first such member in the
\* cell's order; the hover label shows that maximal count.
C7_ChosenIsFirstMaximum ==
    \A k \in 1 .. Len(bins) :
        LET d      == bins[k].members
            chosen == nodeWithMostIssues(d)
        IN  /\ \E j \in 1 .. Len(d) :
                  /\ d[j] = chosen
                  /\ \A i \in 1 .. Len(d) :
                        Len(SelectSeq(d[i].processes, LAMBDA p : p.status # "OK"))
                          <= Len(SelectSeq(d[j].processes, LAMBDA p : p.status # "OK"))
                  /\ \A i \in 1 .. (j - 1) :
                        Len(SelectSeq(d[i].processes, LAMBDA p : p.status # "OK"))
                          < Len(SelectSeq(d[j].processes, LAMBDA p : p.status # "OK"))
            /\ (lastEvent.type = "click" /\ lastEvent.target = "cell"
                  /\ lastEvent.arg = k) => selectedNode = chosen

\* a cell was clicked in which two members tie on the maximal count and a
\* member with fewer non-OK processes comes first
C7_Witness ==
    /\ lastEvent.type = "click"
    /\ lastEvent.target = "cell"
    /\ LET d == bins[lastEvent.arg].members
       IN  \E h, i, j \in 1 .. Len(d) :
              /\ h < i
              /\ i < j
              /\ issues(d[h]) < issues(d[i])
              /\ issues(d[i]) = issues(d[j])
              /\ selectedNode = d[i]

\* C10: the displayed assets are exactly the assets whose date is the
\* current date filter and the counter shows their number; when the filter
\* matches no asset (as the unset filter does) no hex cell is displayed and
\* the counter shows 0.
C10_DisplayedIsFiltered ==
    LET matching == { nodes[k] : k \in { i \in 1 .. Len(nodes) :
                                          nodes[i].date = currentDate } }
    IN  /\ displayed = matching
        /\ totalCount = Cardinality(matching)
        /\ \A k \in 1 .. Len(bins) : bins[k].members # << >>
        /\ matching = {} => (bins = << >> /\ totalCount = 0)

\* the date filter was changed and the cells of the new date are displayed
C10_Witness ==
    /\ lastEvent.type = "date"
    /\ bins # << >>
    /\ \A k \in 1 .. Len(bins) :
          \A j \in 1 .. Len(bins[k].members) :
              bins[k].members[j].date = currentDate

\* C8: an anomalous generated asset has between 1 and 9 processes whose
\* status is not OK, and a generated asset that is not anomalous has none.
C8_NonOkCountMatchesAnomaly ==
    sample.pc = "pushed" =>
        LET nonOk == Cardinality({ n \in 1 .. Len(sample.processes) :
                                     sample.processes[n].status # "OK" })
        IN  IF sample.hasAnomaly THEN nonOk >= 1 /\ nonOk <= 9 ELSE nonOk = 0

\* an anomalous asset was generated with 9 non-OK processes
C8_Witness ==
    /\ sample.pc = "pushed"
    /\ sample.hasAnomaly
    /\ Len(sample.processes) > 9
    /\ \A n \in 1 .. 9 : sample.processes[n].status # "OK"

\* C9 as stated: once generation has finished, an asset's x lies in
\* [r, width - r] and its y in [r, height - r], r being 60 for an anomalous
\* asset and 25 otherwise, for every viewport.
C9_PositionWithinMargins ==
    sample.pc = "done" =>
        LET r == IF sample.hasAnomaly THEN 60000 ELSE 25000
        IN  /\ r <= sample.x
            /\ sample.x <= sample.dims.width * 1000 - r
            /\ r <= sample.y
            /\ sample.y <= sample.dims.height * 1000 - r

\* the second App pushed an anomalous asset less than 60 px from the left
\* edge of a 375 px wide viewport
C9_Witness ==
    /\ sample.pc = "done"
    /\ sample.variant = "second"
    /\ sample.hasAnomaly
    /\ sample.dims.width = 375
    /\ sample.x < 60000

\* C11 as stated: after the first generation the asset collection is
\* replaced only by a resize to a viewport whose width or height differs
\* from the one the current collection was generated for.
C11_OneGenerationPerDimensions ==
    [][(pass > 0 /\ nodes' # nodes) =>
          \/ dimensions'.width # dimensions.width
          \/ dimensions'.height # dimensions.height]_vars

\* C12 as stated: no process identifier occurs in the process lists of two
\* different assets of the collection, and the process identifiers of one
\* asset are distinct.
C12_ProcessBelongsToOneAsset ==
    /\ \A a, b \in 1 .. Len(nodes) :
          a # b =>
            \A m \in 1 .. Len(nodes[a].processes) :
               \A n \in 1 .. Len(nodes[b].processes) :
                  nodes[a].processes[m].id # nodes[b].processes[n].id
    /\ \A a \in 1 .. Len(nodes) :
          \A m, n \in 1 .. Len(nodes[a].processes) :
             m # n => nodes[a].processes[m].id # nodes[a].processes[n].id

\* the collection holds two assets of different dates whose first processes
\* have the same identifier
C12_Witness ==
    \E a, b \in 1 .. Len(nodes) :
        /\ nodes[a].date # nodes[b].date
        /\ nodes[a].id # nodes[b].id
        /\ nodes[a].processes[1].id = nodes[b].processes[1].id

\* C18: for every date and every per-day total the generator can draw, the
\* total lies in 1410..1455, each group's count is its table count times
\* total / 1422 rounded to the nearest integer, and the number of assets
\* generated for the date lies in 1410..1455.
C18_AssetsPerDateInRange ==
    sample.pc = "done" =>
        /\ currentTotal = 1422
        /\ sample.total >= 1410
        /\ sample.total <= 1455
        /\ Len(sample.counts) = 5
        /\ \A g \in 1 .. Len(sample.counts) :
              /\ 2 * 1422 * sample.counts[g] - 1422
                    <= 2 * groups[g].count * sample.total
              /\ 2 * groups[g].count * sample.total
                    < 2 * 1422 * sample.counts[g] + 1422
        /\ SumSeq(sample.counts) >= 1410
        /\ SumSeq(sample.counts) <= 1455

\* the largest total was drawn for the oldest date and the five scaled
\* counts sum to 1455
C18_Witness ==
    /\ sample.pc = "done"
    /\ sample.date = "d-30"
    /\ sample.total = 1455
    /\ SumSeq(sample.counts) = 1455

\* C19: every generated asset has between 1 and 100 processes; in its
\* process list no OK process comes before a non-OK one, and every process
\* after the forced non-OK ones has status OK.
C19_ProcessListShape ==
    sample.pc = "pushed" =>
        /\ Len(sample.processes) >= 1
        /\ Len(sample.processes) <= 100
        /\ \A m, n \in 1 .. Len(sample.processes) :
              (m < n /\ sample.processes[m].status = "OK")
                 => sample.processes[n].status = "OK"
        /\ \A n \in 1 .. Len(sample.processes) :
              n > sample.problematic => sample.processes[n].status = "OK"

\* an anomalous asset drew a process count of 1 and 9 forced non-OK
\* processes: its list holds the 9 non-OK processes and no OK one
C19_Witness ==
    /\ sample.pc = "pushed"
    /\ sample.hasAnomaly
    /\ sample.processCount = 1
    /\ sample.problematic = 9
    /\ Len(sample.processes) = 9
    /\ \A n \in 1 .. 9 : sample.processes[n].status # "OK"

\* C13 as stated: the fill of a cell with 0 anomalous members is #e0e0e0,
\* with 1 it is #d32f2f, with 5 it is #b71c1c, and with every count of 10 or
\* more it is #7f0000.
C13_ColourTiers ==
    sample.pc = "filled" =>
        /\ sample.a = 0 => sample.fillA = << 224, 224, 224 >>
        /\ sample.a = 1 => sample.fillA = << 211, 47, 47 >>
        /\ sample.a = 5 => sample.fillA = << 183, 28, 28 >>
        /\ sample.a >= 10 => sample.fillA = << 127, 0, 0 >>

\* a cell with 11 anomalous members is filled with rgb(116, 0, 0)
C13_Witness ==
    /\ sample.pc = "filled"
    /\ sample.a = 11
    /\ sample.fillA = << 116, 0, 0 >>

\* C14: for any two counts a <= b of anomalous members, counts above 10
\* included, no RGB channel of the fill for b is greater than that channel
\* of the fill for a.
C14_ColourMonotonic ==
    (sample.pc = "filled" /\ sample.a <= sample.b) =>
        \A c \in 1 .. 3 : sample.fillB[c] <= sample.fillA[c]

\* two cells with 10 and 15 anomalous members: the second is darker
C14_Witness ==
    /\ sample.pc = "filled"
    /\ sample.a = 10
    /\ sample.b = 15
    /\ sample.fillA = << 127, 0, 0 >>
    /\ sample.fillB[1] < 127

\* C15 as stated: the secondary graph has between 15 and 20 nodes and each
\* of its nodes is the source of at least 1 and at most 3 edges.
C15_GraphNodesAndEdges ==
    sample.pc = "done" =>
        /\ sample.nodeCount >= 15
        /\ sample.nodeCount <= 20
        /\ Len(sample.links) >= 1
        /\ Len(sample.links) <= 3
        /\ \A n \in 1 .. Len(sample.links) : sample.links[n].source = sample.i

\* the graph node 0 drew one connection whose target was node 0 itself and
\* is the source of no edge
C15_Witness ==
    /\ sample.pc = "done"
    /\ sample.i = 0
    /\ sample.connectionCount = 1
    /\ sample.links = << >>

\* C16: after any sequence of wheel events, resizes and re-renders the scale
\* of the zoom behaviour's transform, and the scale of the transform the
\* visualization group carries, is within [0.5, 4].
C16_ZoomScaleWithinExtent ==
    /\ zoomState.k >= 50
    /\ zoomState.k <= 400
    /\ groupTransform # NoTransform =>
          (groupTransform.k >= 50 /\ groupTransform.k <= 400)

\* after a resize, a wheel event asking for 16 times the scale left the
\* scale at 4
C16_Witness ==
    /\ pass = 2
    /\ lastEvent.type = "wheel"
    /\ lastEvent.arg = 1600
    /\ zoomState.k = 400
    /\ groupTransform = zoomState

\* C17 as stated: a drag gesture on the main canvas changes the translation
\* of the view's pan/zoom transform by the drag offset.
C17_DragPans ==
    [][lastEvent'.type = "drag" =>
          /\ zoomState' = [zoomState EXCEPT !.x = @ + lastEvent'.arg,
                                            !.y = @ + lastEvent'.arg]
          /\ groupTransform' = zoomState']_vars

\* a drag gesture has ended and the zoom transform is still the initial one
C17_Witness ==
    /\ lastEvent.type = "drag"
    /\ lastEvent.target = "svg"
    /\ lastEvent.arg # 0
    /\ zoomState = initialTransform(dimensions)

\* C20: hover, cell click, expand and collapse, close, date change, wheel
\* zoom and drag leave the asset collection, with every field of every
\* asset, unchanged; the displayed assets and the selected asset are
\* elements of the collection.
C20_InteractionsKeepAssets ==
    [][lastEvent'.type \in {"hover", "click", "date", "wheel", "drag"} =>
          /\ nodes' = nodes
          /\ selectedNode' # NullNode =>
                \E k \in 1 .. Len(nodes) : nodes[k] = selectedNode'
          /\ \A d \in displayed' :
                \E k \in 1 .. Len(nodes) : nodes[k] = d]_vars

\* a wheel event zoomed the view while an anomalous asset of the collection
\* is selected and its process list is collapsed
C20_Witness ==
    /\ lastEvent.type = "wheel"
    /\ groupTransform = zoomState
    /\ zoomState.k # 200
    /\ selectedNode # NullNode
    /\ selectedNode.hasAnomaly
    /\ expandedProcess = NullProcess
    /\ \E k \in 1 .. Len(nodes) : nodes[k] = selectedNode

\* C28: for every per-day total drawn in 1410..1455 the five scaled group
\* counts sum to that total, so the number of assets generated for a date
\* equals the total drawn for the date.
C28_ScaledCountsSumToTotal ==
    sample.pc = "done" =>
        /\ sample.total >= 1410
        /\ sample.total <= 1455
        /\ SumSeq(sample.counts) = sample.total

\* the total 1423 was drawn and the five counts are the table counts, which
\* sum to 1422
C28_Witness ==
    /\ sample.pc = "done"
    /\ sample.total = 1423
    /\ sample.counts = << 568, 384, 287, 133, 50 >>
    /\ SumSeq(sample.counts) = 1422

\* C23: whenever hex cells are displayed, the transform attribute of the
\* visualization group equals the zoom behaviour's current transform: the
\* initial 2x centred zoom is in effect on the first display, and a re-render
\* (date change, regeneration, resize) keeps the displayed pan/zoom.
C23_GroupCarriesZoomTransform ==
    bins # << >> => groupTransform = zoomState

\* a wheel event had zoomed the cells to a scale other than the initial one
\* and a date change then drew them again: the new group carries no transform
\* while the zoom behaviour keeps the zoomed one
C23_Witness ==
    /\ bins # << >>
    /\ lastEvent.type = "date"
    /\ zoomState.k # initialTransform(dimensions).k
    /\ groupTransform = NoTransform

\* C24: after the declutter pass of the first App every asset's position is
\* its own simulated position clamped to the viewport with margin 60
\* (anomalous) or 25 (healthy); no asset keeps its pre-simulation position.
C24_RelaxedPositionWrittenBack ==
    (sample.pc = "done" /\ sample.variant = "first") =>
        /\ sample.x = clamp(sample.simX, sample.dims.width, sample.hasAnomaly)
        /\ sample.y = clamp(sample.simY, sample.dims.height, sample.hasAnomaly)

\* the simulation moved an anomalous asset by 7 px along both axes, to a
\* position inside the margins, and the asset still has the generated position
C24_Witness ==
    /\ sample.pc = "done"
    /\ sample.variant = "first"
    /\ sample.hasAnomaly
    /\ sample.simX = sample.x + 7000
    /\ sample.simY = sample.y + 7000
    /\ clamp(sample.simX, sample.dims.width, TRUE) = sample.simX
    /\ clamp(sample.simY, sample.dims.height, TRUE) = sample.simY

\* C27 as stated: a click on a hex cell with at least one anomalous member
\* selects an anomalous asset and ends with a process expanded; a click on a
\* cell with no anomalous member selects the cell's first member with
\* expandedProcess null.
C27_CellClickOpensAnomalyForm ==
    [][clickedCell =>
         IF issueCount(clickedMembers) > 0
         THEN /\ selectedNode'.hasAnomaly
              /\ expandedProcess' # NullProcess
         ELSE /\ selectedNode' = clickedMembers[1]
              /\ expandedProcess' = NullProcess]_vars

\* C27 amended: a click on a hex cell with at least one anomalous member
\* selects an anomalous member of the cell; its first non-OK process is
\* expanded when the click changes the selection, and expandedProcess keeps
\* its value when the asset was already selected. A click on a cell with no
\* anomalous member selects the cell's first member with expandedProcess null.
C27_CellClickSelectsAnomalous ==
    [][clickedCell =>
         IF issueCount(clickedMembers) > 0
         THEN /\ selectedNode'.hasAnomaly
              /\ \E j \in 1 .. Len(clickedMembers) :
                    clickedMembers[j] = selectedNode'
              /\ selectedNode' # selectedNode =>
                    /\ expandedProcess' # NullProcess
                    /\ expandedProcess' = firstSuspiciousProcess(selectedNode')
              /\ selectedNode' = selectedNode =>
                    expandedProcess' = expandedProcess
         ELSE /\ selectedNode' = clickedMembers[1]
              /\ expandedProcess' = NullProcess]_vars

\* a cell whose first member is healthy and which has an anomalous member
\* was clicked: an anomalous asset is selected and a process is expanded
C27_Witness ==
    /\ lastEvent.type = "click"
    /\ lastEvent.target = "cell"
    /\ lastEvent.arg \in 1 .. Len(bins)
    /\ ~bins[lastEvent.arg].members[1].hasAnomaly
    /\ issueCount(bins[lastEvent.arg].members) > 0
    /\ selectedNode # NullNode
    /\ selectedNode.hasAnomaly
    /\ expandedProcess # NullProcess

\* C22: with the group table of the single group A (count 10, anomaly rate
\* 1.0) the generated set has exactly 10 assets, every asset is anomalous and
\* has 1 to 9 non-OK processes, and an asset with more than 9 processes has
\* at least one OK process, after its non-OK ones.
C22_OneGroupScenario ==
    sample.pc = "pushed" =>
        /\ sample.count = 10
        /\ sample.i < 10
        /\ sample.hasAnomaly
        /\ issues(sample) >= 1
        /\ issues(sample) <= 9
        /\ sample.processCount > 9 =>
              /\ Len(sample.processes) > issues(sample)
              /\ \A k \in 1 .. Len(sample.processes) :
                    (k > issues(sample)) = (sample.processes[k].status = "OK")

\* the total 1455 was drawn for the latest date: the loop of group A ran to
\* the index 1454, an anomalous asset with 100 processes
C22_Witness ==
    /\ sample.pc = "pushed"
    /\ sample.date = dates[Len(dates)]
    /\ sample.total = 1455
    /\ sample.count = 1455
    /\ sample.i = 1454
    /\ sample.hasAnomaly
    /\ sample.processCount = 100
    /\ issues(sample) = 9

\* C21: when a delayed render callback runs and no container for its process
\* id is mounted, the render is skipped: nothing is drawn, and selectedNode
\* and expandedProcess are unchanged.
C21_RenderSkippedWithoutContainer ==
    [][(/\ lastEvent'.type = "timer"
        /\ timers.pending # << >>
        /\ container.id # Head(timers.pending))
       => /\ container' = container
          /\ selectedNode' = selectedNode
          /\ expandedProcess' = expandedProcess]_vars

\* a callback ran after its process was collapsed, with the asset still
\* selected: no container is mounted and nothing was drawn
C21_Witness ==
    /\ lastEvent.type = "timer"
    /\ selectedNode # NullNode
    /\ expandedProcess = NullProcess
    /\ container = NoContainer

\* C25: under any interleaving of expand, collapse, selection and close
\* events with the delayed callbacks, a callback draws only into the
\* container of the process that is expanded for the selected asset, and the
\* mounted container holds at most one graph svg.
C25_GraphOnlyInExpandedContainer ==
    [][/\ (lastEvent'.type = "timer" /\ container' # container) =>
             /\ Head(timers.pending) = expandedProcess
             /\ containerId(selectedNode, expandedProcess) = expandedProcess
             /\ container'.id = expandedProcess
       /\ container'.svgs <= 1
       /\ container'.svgs > 0 =>
             /\ container'.id = expandedProcess'
             /\ containerId(selectedNode', expandedProcess') = container'.id]_vars

\* two callbacks were pending for the same process: the first has drawn the
\* graph, the second is still pending
C25_Witness ==
    /\ lastEvent.type = "timer"
    /\ expandedProcess # NullProcess
    /\ timers.pending = << expandedProcess >>
    /\ container.id = expandedProcess
    /\ container.svgs = 1

\* C26: unless events that change the selection or the expansion keep
\* coming, from some point on an expanded process has its graph rendered in
\* its container: a state that is process-expanded and stays so gets its
\* graph, whatever path led into it.
C26_ExpandedGraphEventuallyRendered ==
    \/ []<><<selectionEvent>>_vars
    \/ <>[](expandedProcess # NullProcess => graphRendered)

\* the graph of a process of an asset of the earlier date is rendered and no
\* callback is pending
C26_Witness ==
    /\ graphRendered
    /\ lastEvent.type = "timer"
    /\ timers.pending = << >>
    /\ selectedNode # NullNode
    /\ selectedNode.date = dates[1]

====
